---- MODULE Spec2Model ----
(***************************************************************************)
(* Model of the drainer-registry Anchor program: the DrainerReport account *)
(* (state/drainer_report.rs) and the two instructions that change it,      *)
(* report_drainer (instructions/report_drainer.rs) and update_ai_metadata  *)
(* (instructions/update_ai_metadata.rs).                                   *)
(*                                                                         *)
(* The state is what is on chain between two instructions: the             *)
(* DrainerReport accounts by address and the lamport balances of the       *)
(* wallets.  One action is one instruction.  An instruction whose accounts *)
(* validation or handler returns Err commits nothing: neither the account  *)
(* it deserialized and changed in memory nor the transfers it invoked.     *)
(***************************************************************************)
EXTENDS Integers, Sequences, FiniteSets, TLC

----------------------------------------------------------------------------
(* Program constants                                                       *)

ANTI_SPAM_FEE == 10000000
LEN == 8 + 32 + 4 + 8 + 8 + 8 + 64 + 1 + 14 + 504 + 504 + 1
MaxSummaryChars == 500
MaxMethods == 10
MaxDomains == 5
MaxDomainChars == 100
MaxConfidence == 100

(* Lamports the payer of init_if_needed puts into a new account of LEN     *)
(* bytes (the rent-exempt minimum for space = DrainerReport::LEN).         *)
RentMinimum == (LEN + 128) * 6960

----------------------------------------------------------------------------
(* Bounds of the model                                                     *)

\* The largest value of report_count (a u32) and of total_sol_reported (a
\* u64), scaled down so that a run reaches them; checked_add fails past them.
U32Max == 3
U64Max == 3
MaxTime == 1      \* clock readings are 0..MaxTime

----------------------------------------------------------------------------
(* Identities.  Pubkey::default() is the all-zero key, which is also the   *)
(* system program's id.                                                    *)

SystemProgramID == "11111111111111111111111111111111"
PubkeyDefault == SystemProgramID
Signers == {"r1", "r2", "r3"}
DrainerKey == "drainer"
Treasury == "treasury"
Wallets == Signers \cup {Treasury}
Keys == {SystemProgramID, DrainerKey} \cup Wallets

NoRecord == [exists |-> FALSE]
None == <<>>
Some(x) == <<x>>

----------------------------------------------------------------------------
(* Text.  A String is held run-length encoded: a sequence of runs, each   *)
(* n >= 1 repetitions of the character with code point c, no two adjacent  *)
(* runs of the same character.  String::len() counts UTF-8 bytes, chars()  *)
(* walks characters.                                                       *)

Utf8Width(c) == IF c < 128 THEN 1 ELSE IF c < 2048 THEN 2 ELSE IF c < 65536 THEN 3 ELSE 4

RECURSIVE ByteLen(_)
\* String::len()
ByteLen(s) == IF s = <<>> THEN 0 ELSE Head(s).n * Utf8Width(Head(s).c) + ByteLen(Tail(s))

RECURSIVE CharCount(_)
\* chars().count()
CharCount(s) == IF s = <<>> THEN 0 ELSE Head(s).n + CharCount(Tail(s))

RECURSIVE TakeChars(_, _)
\* chars().take(n).collect()
TakeChars(s, n) ==
    IF n = 0 \/ s = <<>> THEN <<>>
    ELSE IF Head(s).n >= n THEN <<[c |-> Head(s).c, n |-> n]>>
    ELSE <<Head(s)>> \o TakeChars(Tail(s), n - Head(s).n)

\* into_iter().take(n).collect() on a Vec
Take(v, n) == SubSeq(v, 1, IF Len(v) < n THEN Len(v) ELSE n)

Min(a, b) == IF a < b THEN a ELSE b

----------------------------------------------------------------------------
(* AttackCategory, and the conversion from the instruction's u8            *)

AttackCategory == {"Phishing", "FakeAirdrop", "SocialEngineering",
                   "MaliciousApproval", "SetAuthority", "Unknown"}

\* Variant of the conversion without the arm for 4: SetAuthority falls to
\* Unknown.
CategoryFromCode_no_set_authority(category) ==
    CASE category = 0 -> "Phishing"
      [] category = 1 -> "FakeAirdrop"
      [] category = 2 -> "SocialEngineering"
      [] category = 3 -> "MaliciousApproval"
      [] OTHER -> "Unknown"

\* match category { 0 => .., 4 => .., _ => Unknown }
CategoryFromCode(category) ==
    CASE category = 0 -> "Phishing"
      [] category = 1 -> "FakeAirdrop"
      [] category = 2 -> "SocialEngineering"
      [] category = 3 -> "MaliciousApproval"
      [] category = 4 -> "SetAuthority"
      [] OTHER -> "Unknown"

----------------------------------------------------------------------------
(* The DrainerReport account                                               *)

\* Variant of the allocation that sizes the account to the serialized empty
\* record instead of DrainerReport::LEN.
ZeroedAccount_exact_fit ==
    [exists |-> TRUE,
     space |-> 8 + (32 + 4 + 8 + 8 + 8 + 64 + 1 + 4 + 4 + 4 + 1),
     drainer_address |-> PubkeyDefault,
     report_count |-> 0,
     first_seen |-> 0,
     last_seen |-> 0,
     total_sol_reported |-> 0,
     recent_reporters |-> <<PubkeyDefault, PubkeyDefault>>,
     attack_category |-> "Phishing",
     attack_methods |-> <<>>,
     ai_summary |-> <<>>,
     key_domains |-> <<>>,
     ai_confidence |-> 0]

\* The account init_if_needed has just allocated: space = LEN bytes, every
\* byte zero.
ZeroedAccount ==
    [exists |-> TRUE,
     space |-> LEN,
     drainer_address |-> PubkeyDefault,
     report_count |-> 0,
     first_seen |-> 0,
     last_seen |-> 0,
     total_sol_reported |-> 0,
     recent_reporters |-> <<PubkeyDefault, PubkeyDefault>>,
     attack_category |-> "Phishing",
     attack_methods |-> <<>>,
     ai_summary |-> <<>>,
     key_domains |-> <<>>,
     ai_confidence |-> 0]

\* Variant of initialize that leaves last_seen as the zeroed account has it.
initialize_last_seen_unset(self, drainer_address, reporter, amount_stolen, now) ==
    [self EXCEPT
        !.drainer_address = drainer_address,
        !.report_count = 1,
        !.first_seen = now,
        !.total_sol_reported = IF amount_stolen = None THEN 0 ELSE amount_stolen[1],
        !.recent_reporters = <<reporter, PubkeyDefault>>,
        !.attack_category = "Unknown",
        !.attack_methods = <<>>,
        !.ai_summary = <<>>,
        !.key_domains = <<>>,
        !.ai_confidence = 0]

\* DrainerReport::initialize
initialize(self, drainer_address, reporter, amount_stolen, now) ==
    [self EXCEPT
        !.drainer_address = drainer_address,
        !.report_count = 1,
        !.first_seen = now,
        !.last_seen = now,
        !.total_sol_reported = IF amount_stolen = None THEN 0 ELSE amount_stolen[1],
        !.recent_reporters = <<reporter, PubkeyDefault>>,
        !.attack_category = "Unknown",
        !.attack_methods = <<>>,
        !.ai_summary = <<>>,
        !.key_domains = <<>>,
        !.ai_confidence = 0]

\* Variant of checked_add that wraps around (wrapping_add).
wrapping_add(a, b, max) == Some((a + b) % (max + 1))

\* u32::checked_add and u64::checked_add: None on overflow
checked_add(a, b, max) == IF a + b > max THEN None ELSE Some(a + b)

\* Variant of add_report that saturates the total (saturating_add) instead of
\* failing with AmountOverflow.
add_report_saturating(self, reporter, amount_stolen, now) ==
    LET count == checked_add(self.report_count, 1, U32Max)
    IN  IF count = None
        THEN [err |-> "ReportCountOverflow", self |-> self]
        ELSE [err |-> "Ok",
              self |-> [self EXCEPT
                 !.report_count = count[1],
                 !.last_seen = now,
                 !.total_sol_reported =
                     IF amount_stolen = None THEN @
                     ELSE IF @ + amount_stolen[1] > U64Max THEN U64Max
                     ELSE @ + amount_stolen[1],
                 !.recent_reporters = <<reporter, self.recent_reporters[1]>>]]

\* Variant of add_report that overwrites slot 0 without shifting it to slot 1.
add_report_no_shift(self, reporter, amount_stolen, now) ==
    LET count == checked_add(self.report_count, 1, U32Max)
        total == IF amount_stolen = None
                 THEN Some(self.total_sol_reported)
                 ELSE checked_add(self.total_sol_reported, amount_stolen[1], U64Max)
    IN  IF count = None THEN [err |-> "ReportCountOverflow", self |-> self]
        ELSE IF total = None
        THEN [err |-> "AmountOverflow",
              self |-> [self EXCEPT !.report_count = count[1], !.last_seen = now]]
        ELSE [err |-> "Ok",
              self |-> [self EXCEPT
                 !.report_count = count[1],
                 !.last_seen = now,
                 !.total_sol_reported = total[1],
                 !.recent_reporters = <<reporter, self.recent_reporters[2]>>]]

\* Variant of add_report that does not assign last_seen.
add_report_stale_last_seen(self, reporter, amount_stolen, now) ==
    LET count == checked_add(self.report_count, 1, U32Max)
        total == IF amount_stolen = None
                 THEN Some(self.total_sol_reported)
                 ELSE checked_add(self.total_sol_reported, amount_stolen[1], U64Max)
    IN  IF count = None THEN [err |-> "ReportCountOverflow", self |-> self]
        ELSE IF total = None
        THEN [err |-> "AmountOverflow",
              self |-> [self EXCEPT !.report_count = count[1]]]
        ELSE [err |-> "Ok",
              self |-> [self EXCEPT
                 !.report_count = count[1],
                 !.total_sol_reported = total[1],
                 !.recent_reporters = <<reporter, self.recent_reporters[1]>>]]

\* Variant of add_report whose report_count wraps around (wrapping_add)
\* instead of failing with ReportCountOverflow.
add_report_wrapping_count(self, reporter, amount_stolen, now) ==
    LET s1 == [self EXCEPT !.report_count = (@ + 1) % (U32Max + 1), !.last_seen = now]
        total == IF amount_stolen = None
                 THEN Some(s1.total_sol_reported)
                 ELSE checked_add(s1.total_sol_reported, amount_stolen[1], U64Max)
    IN  IF total = None
        THEN [err |-> "AmountOverflow", self |-> s1]
        ELSE [err |-> "Ok",
              self |-> [s1 EXCEPT
                 !.total_sol_reported = total[1],
                 !.recent_reporters = <<reporter, s1.recent_reporters[1]>>]]

\* Variant of add_report that sets the metadata to its defaults, as
\* initialize does.
add_report_reset_metadata(self, reporter, amount_stolen, now) ==
    LET count == checked_add(self.report_count, 1, U32Max)
        total == IF amount_stolen = None
                 THEN Some(self.total_sol_reported)
                 ELSE checked_add(self.total_sol_reported, amount_stolen[1], U64Max)
    IN  IF count = None THEN [err |-> "ReportCountOverflow", self |-> self]
        ELSE IF total = None
        THEN [err |-> "AmountOverflow",
              self |-> [self EXCEPT !.report_count = count[1], !.last_seen = now]]
        ELSE [err |-> "Ok",
              self |-> [self EXCEPT
                 !.report_count = count[1],
                 !.last_seen = now,
                 !.total_sol_reported = total[1],
                 !.recent_reporters = <<reporter, self.recent_reporters[1]>>,
                 !.attack_category = "Unknown",
                 !.attack_methods = <<>>,
                 !.ai_summary = <<>>,
                 !.key_domains = <<>>,
                 !.ai_confidence = 0]]

\* DrainerReport::add_report.  The method assigns the fields of self one
\* after the other, so the self it leaves behind an Err carries the
\* assignments made before the failing check.
add_report(self, reporter, amount_stolen, now) ==
    LET count == checked_add(self.report_count, 1, U32Max)
    IN  IF count = None
        THEN [err |-> "ReportCountOverflow", self |-> self]
        ELSE
        LET s1 == [self EXCEPT !.report_count = count[1], !.last_seen = now]
            total == IF amount_stolen = None
                     THEN Some(s1.total_sol_reported)
                     ELSE checked_add(s1.total_sol_reported, amount_stolen[1], U64Max)
        IN  IF total = None
            THEN [err |-> "AmountOverflow", self |-> s1]
            ELSE [err |-> "Ok",
                  self |-> [s1 EXCEPT
                     !.total_sol_reported = total[1],
                     !.recent_reporters = <<reporter, s1.recent_reporters[1]>>]]

\* Variant of the summary truncation that cuts at 500 bytes, counted at the
\* width of the first character.
TruncateSummary_bytes(summary) ==
    IF ByteLen(summary) > MaxSummaryChars
    THEN TakeChars(summary, MaxSummaryChars \div Utf8Width(Head(summary).c))
    ELSE summary

TruncateSummary(summary) ==
    IF ByteLen(summary) > MaxSummaryChars THEN TakeChars(summary, MaxSummaryChars) ELSE summary

TruncateDomain(d) ==
    IF ByteLen(d) > MaxDomainChars THEN TakeChars(d, MaxDomainChars) ELSE d

TruncateMethods(methods) == Take(methods, MaxMethods)

\* Variant of the domains truncation that keeps 5 domains at their length.
TruncateDomains_count_only(domains) == Take(domains, MaxDomains)

TruncateDomains(domains) ==
    LET kept == Take(domains, MaxDomains)
    IN  [i \in 1..Len(kept) |-> TruncateDomain(kept[i])]

ClampConfidence(confidence) == Min(confidence, MaxConfidence)

\* Variant of update_ai_metadata that also moves first_seen to last_seen.
update_ai_metadata_first_seen(self, category, methods, summary, domains, confidence) ==
    [err |-> "Ok",
     self |-> [self EXCEPT
        !.first_seen = self.last_seen,
        !.attack_category = category,
        !.attack_methods = TruncateMethods(methods),
        !.ai_summary = TruncateSummary(summary),
        !.key_domains = TruncateDomains(domains),
        !.ai_confidence = ClampConfidence(confidence)]]

\* DrainerReport::update_ai_metadata
update_ai_metadata(self, category, methods, summary, domains, confidence) ==
    [err |-> "Ok",
     self |-> [self EXCEPT
        !.attack_category = category,
        !.attack_methods = TruncateMethods(methods),
        !.ai_summary = TruncateSummary(summary),
        !.key_domains = TruncateDomains(domains),
        !.ai_confidence = ClampConfidence(confidence)]]

----------------------------------------------------------------------------
(* Inputs of the instructions                                              *)

Times == 0..MaxTime
Amounts == {None, Some(1), Some(U64Max)}

\* n times the character c
Run(c, n) == [c |-> c, n |-> n]

\* 97 is "a", 98 is "b", 233 is e with acute accent (two bytes in UTF-8)
TypicalInput ==
    [category |-> 0, methods |-> <<3, 1>>, summary |-> <<Run(97, 20)>>,
     domains |-> <<<<Run(97, 10)>>>>, confidence |-> 90]

\* every field over its limit, one byte a character: 12 methods, a summary
\* of 600 characters, 7 domains of which the second has 150 characters
OversizedInput ==
    [category |-> 9, methods |-> [i \in 1..12 |-> i],
     summary |-> <<Run(97, 450), Run(98, 150)>>,
     domains |-> [i \in 1..7 |->
                    IF i = 2 THEN <<Run(97, 90), Run(98, 60)>>
                             ELSE <<Run(96 + i, 100)>>],
     confidence |-> 150]

\* two bytes a character: over 500 (100) bytes in under 500 (100) characters
MultibyteInput ==
    [category |-> 4, methods |-> <<>>, summary |-> <<Run(233, 300)>>,
     domains |-> <<<<Run(233, 60)>>>>, confidence |-> 0]

MetadataInputs == {TypicalInput, OversizedInput, MultibyteInput}

----------------------------------------------------------------------------
(* State                                                                   *)

VARIABLES
    store,      \* address -> its DrainerReport account, or NoRecord
    balances,   \* wallet -> lamports
    last,       \* the last instruction: which, how it ended, what it emitted
    audit       \* address -> what an observer of the accepted reports recorded

vars == <<store, balances, last, audit>>

NoAudit == [n |-> 0, sum |-> 0, log |-> <<>>, mono |-> TRUE, fees |-> 0]

InitBalances ==
    [w \in Wallets |->
        CASE w = "r1" -> RentMinimum + 2 * ANTI_SPAM_FEE
          [] w = "r2" -> RentMinimum + ANTI_SPAM_FEE
          [] w = "r3" -> ANTI_SPAM_FEE
          [] OTHER -> 0]

Init ==
    /\ store = [a \in Keys |-> NoRecord]
    /\ audit = [a \in Keys |-> NoAudit]
    /\ balances = InitBalances
    /\ last = [op |-> "none", err |-> "Ok", event |-> None]

----------------------------------------------------------------------------
(* report_drainer                                                          *)

\* Variant of the transfer that reports success without moving anything when
\* the source lacks the lamports.
transfer_unfunded(bal, from, to, lamports) ==
    IF bal[from] < lamports
    THEN [err |-> "Ok", balances |-> bal]
    ELSE [err |-> "Ok",
          balances |-> [w \in DOMAIN bal |->
                          bal[w] - (IF w = from THEN lamports ELSE 0)
                                 + (IF w = to THEN lamports ELSE 0)]]

\* system_instruction::transfer through invoke: fails when the source lacks
\* the lamports
transfer(bal, from, to, lamports) ==
    IF bal[from] < lamports
    THEN [err |-> "InsufficientLamports", balances |-> bal]
    ELSE [err |-> "Ok",
          balances |-> [w \in DOMAIN bal |->
                          bal[w] - (IF w = from THEN lamports ELSE 0)
                                 + (IF w = to THEN lamports ELSE 0)]]

\* Variant of the accounts validation without the constraint on
\* program_authority.
ReportDrainerAccounts_no_constraint(st, bal, drainer_address, reporter, program_authority) ==
    LET fresh == st[drainer_address] = NoRecord
    IN  IF fresh /\ bal[reporter] < RentMinimum
        THEN [err |-> "InsufficientLamports"]
        ELSE [err |-> "Ok",
              drainer_report |-> IF fresh THEN ZeroedAccount ELSE st[drainer_address],
              balances |-> IF fresh THEN [bal EXCEPT ![reporter] = @ - RentMinimum]
                                    ELSE bal]

\* #[derive(Accounts)] ReportDrainer, validated before the handler runs:
\* init_if_needed allocates a missing account at the reporter's cost, then
\* the constraint on program_authority is checked.
ReportDrainerAccounts(st, bal, drainer_address, reporter, program_authority) ==
    LET fresh == st[drainer_address] = NoRecord
    IN  IF fresh /\ bal[reporter] < RentMinimum
        THEN [err |-> "InsufficientLamports"]
        ELSE IF program_authority = reporter
        THEN [err |-> "InvalidDrainerAddress"]
        ELSE [err |-> "Ok",
              drainer_report |-> IF fresh THEN ZeroedAccount ELSE st[drainer_address],
              balances |-> IF fresh THEN [bal EXCEPT ![reporter] = @ - RentMinimum]
                                    ELSE bal]

\* Variant of the create-or-update step that initializes on every report.
Aggregate_always_initialize(drainer_report, drainer_address, reporter, amount_stolen, now) ==
    [err |-> "Ok",
     self |-> initialize(drainer_report, drainer_address, reporter, amount_stolen, now)]

\* the create-or-update step of the handler
Aggregate(drainer_report, drainer_address, reporter, amount_stolen, now) ==
    IF drainer_report.report_count = 0
    THEN [err |-> "Ok",
          self |-> initialize(drainer_report, drainer_address, reporter, amount_stolen, now)]
    ELSE add_report(drainer_report, reporter, amount_stolen, now)

\* instructions::report_drainer::handler on validated accounts: the error,
\* and the account and balances as the handler leaves them
handler(accounts, drainer_address, reporter, program_authority, amount_stolen, now) ==
    LET unchanged == [drainer_report |-> accounts.drainer_report,
                      balances |-> accounts.balances, event |-> None]
    IN  IF drainer_address = reporter
        THEN [err |-> "CannotReportSelf"] @@ unchanged
        ELSE IF drainer_address = SystemProgramID
        THEN [err |-> "CannotReportSystemProgram"] @@ unchanged
        ELSE
        LET paid == transfer(accounts.balances, reporter, program_authority, ANTI_SPAM_FEE)
        IN  IF paid.err # "Ok"
            THEN [err |-> paid.err] @@ unchanged
            ELSE
            LET agg == Aggregate(accounts.drainer_report, drainer_address, reporter,
                                 amount_stolen, now)
            IN  IF agg.err # "Ok"
                THEN [err |-> agg.err, drainer_report |-> agg.self,
                      balances |-> paid.balances, event |-> None]
                ELSE [err |-> "Ok", drainer_report |-> agg.self,
                      balances |-> paid.balances,
                      event |-> Some([drainer_address |-> drainer_address,
                                      reporter |-> reporter,
                                      report_count |-> agg.self.report_count,
                                      amount_stolen |-> amount_stolen,
                                      timestamp |-> now])]

\* Variant of the instruction in which the lamports the handler moved stay
\* moved when the handler fails afterwards.
report_drainer_keeps_transfer(st, bal, drainer_address, reporter, program_authority, amount_stolen, now) ==
    LET accounts == ReportDrainerAccounts(st, bal, drainer_address, reporter,
                                          program_authority)
    IN  IF accounts.err # "Ok"
        THEN [err |-> accounts.err, store |-> st, balances |-> bal, event |-> None]
        ELSE
        LET h == handler(accounts, drainer_address, reporter, program_authority,
                         amount_stolen, now)
        IN  IF h.err # "Ok"
            THEN [err |-> h.err, store |-> st, balances |-> h.balances, event |-> None]
            ELSE [err |-> "Ok",
                  store |-> [st EXCEPT ![drainer_address] = h.drainer_report],
                  balances |-> h.balances,
                  event |-> h.event]

\* The instruction as the chain sees it: what it commits.  An Err from the
\* accounts validation or from the handler commits nothing.
report_drainer(st, bal, drainer_address, reporter, program_authority, amount_stolen, now) ==
    LET accounts == ReportDrainerAccounts(st, bal, drainer_address, reporter,
                                          program_authority)
        rejected(e) == [err |-> e, store |-> st, balances |-> bal, event |-> None]
    IN  IF accounts.err # "Ok"
        THEN rejected(accounts.err)
        ELSE
        LET h == handler(accounts, drainer_address, reporter, program_authority,
                         amount_stolen, now)
        IN  IF h.err # "Ok"
            THEN rejected(h.err)
            ELSE [err |-> "Ok",
                  store |-> [st EXCEPT ![drainer_address] = h.drainer_report],
                  balances |-> h.balances,
                  event |-> h.event]

\* what an observer of an accepted report writes down
Observe(a, before, reporter, amount_stolen, now) ==
    [n |-> a.n + 1,
     sum |-> a.sum + (IF amount_stolen = None THEN 0 ELSE amount_stolen[1]),
     log |-> Append(a.log, reporter),
     mono |-> a.mono /\ (before # NoRecord => before.last_seen <= now),
     fees |-> a.fees + 1]

ReportDrainer(drainer_address, reporter, program_authority, amount_stolen, now) ==
    /\ \E res \in {report_drainer(store, balances, drainer_address, reporter,
                                  program_authority, amount_stolen, now)} :
           /\ store' = res.store
           /\ balances' = res.balances
           /\ last' = [op |-> "report_drainer", err |-> res.err, event |-> res.event]
           /\ audit' = IF res.err = "Ok"
                       THEN [audit EXCEPT ![drainer_address] =
                               Observe(@, store[drainer_address], reporter,
                                       amount_stolen, now)]
                       ELSE audit

----------------------------------------------------------------------------
(* update_ai_metadata                                                      *)

\* instructions::update_ai_metadata::handler
metadata_handler(drainer_report, category, methods, summary, domains, confidence) ==
    update_ai_metadata(drainer_report, CategoryFromCode(category), methods, summary,
                       domains, confidence)

\* Variant of the instruction whose account is created when missing
\* (init_if_needed), so that it updates an address never reported.
update_metadata_init_if_needed(st, address, program_authority, in) ==
    LET h == metadata_handler(IF st[address] = NoRecord THEN ZeroedAccount
                                                        ELSE st[address],
                              in.category, in.methods, in.summary,
                              in.domains, in.confidence)
    IN  [err |-> "Ok", store |-> [st EXCEPT ![address] = h.self]]

\* The instruction: Account<DrainerReport> needs an existing account; the
\* program_authority is any signer.
update_metadata(st, address, program_authority, in) ==
    IF st[address] = NoRecord
    THEN [err |-> "AccountNotInitialized", store |-> st]
    ELSE
    LET h == metadata_handler(st[address], in.category, in.methods, in.summary,
                              in.domains, in.confidence)
    IN  IF h.err # "Ok"
        THEN [err |-> h.err, store |-> st]
        ELSE [err |-> "Ok", store |-> [st EXCEPT ![address] = h.self]]

UpdateAiMetadata(address, program_authority, in) ==
    \E res \in {update_metadata(store, address, program_authority, in)} :
        /\ store' = res.store
        /\ last' = [op |-> "update_ai_metadata", err |-> res.err, event |-> None]
        /\ UNCHANGED <<balances, audit>>

----------------------------------------------------------------------------

FeeRecipients(reporter) == {Treasury, reporter}

\* update_ai_metadata is given the account of a reported address or of one
\* never reported, and is signed by the fee recipient or by another wallet
MetadataTargets == {DrainerKey, "r1"}
MetadataSigners == {Treasury, "r3"}

ReportTargets(reporter) == {SystemProgramID, DrainerKey, reporter}

Next ==
    \/ \E reporter \in Signers, amount_stolen \in Amounts, now \in Times :
          \E drainer_address \in ReportTargets(reporter),
             program_authority \in FeeRecipients(reporter) :
             ReportDrainer(drainer_address, reporter, program_authority,
                           amount_stolen, now)
    \/ \E address \in MetadataTargets, program_authority \in MetadataSigners,
          in \in MetadataInputs :
          UpdateAiMetadata(address, program_authority, in)

Spec == Init /\ [][Next]_vars

----------------------------------------------------------------------------
(* Properties.  A property of an instruction is stated of its result in    *)
(* every reachable state and for every input, and of the step that the     *)
(* instruction, recorded in last, has just taken.                          *)

Exists(a) == store[a] # NoRecord

\* report_drainer on (drainer_address, reporter, program_authority,
\* amount_stolen, now) in the current state
Report(d, r, p, amt, now) == report_drainer(store, balances, d, r, p, amt, now)

\* the report gets past the accounts validation, the two require! checks and
\* the fee transfer, to the create-or-update step on an existing record
ReachesUpdate(d, r, p) ==
    /\ Exists(d)
    /\ p # r
    /\ d # r
    /\ d # SystemProgramID
    /\ balances[r] >= ANTI_SPAM_FEE

\* the increment of report_count or the addition to the total would overflow
Overflows(rec, amt) ==
    \/ rec.report_count + 1 > U32Max
    \/ amt # None /\ rec.total_sol_reported + amt[1] > U64Max

Rejected == last.op = "report_drainer" /\ last.err # "Ok"
Accepted == last.op = "report_drainer" /\ last.err = "Ok"

\* C1: a report on an existing record whose report_count increment or amount
\* addition overflows fails with ReportCountOverflow or AmountOverflow, and
\* a report that fails with either leaves every field of every record at
\* its value before the call.
C1_UpdateAllOrNothing ==
    /\ [](\A r \in Signers, amt \in Amounts, now \in Times :
            \A d \in ReportTargets(r), p \in FeeRecipients(r) :
               LET res == Report(d, r, p, amt, now)
                   overflow == res.err \in {"ReportCountOverflow", "AmountOverflow"}
               IN  /\ (ReachesUpdate(d, r, p) /\ Overflows(store[d], amt)) => overflow
                   /\ overflow => (Exists(d) /\ Overflows(store[d], amt)
                                   /\ res.store = store))
    /\ [][last'.err \in {"ReportCountOverflow", "AmountOverflow"}
            => store' = store]_vars

\* a report has just failed with AmountOverflow on a record whose
\* report_count add_report had been able to increment
C1_Witness ==
    /\ Rejected
    /\ last.err = "AmountOverflow"
    /\ Exists(DrainerKey)
    /\ store[DrainerKey].report_count < U32Max

----------------------------------------------------------------------------
(* The serialized record (Borsh): fixed-width fields, a 4-byte length      *)
(* before every Vec and String.                                            *)

RECURSIVE DomainsLen(_)
DomainsLen(domains) ==
    IF domains = <<>> THEN 0
    ELSE 4 + ByteLen(Head(domains)) + DomainsLen(Tail(domains))

MethodsPayload(rec) == 4 + Len(rec.attack_methods)
SummaryPayload(rec) == 4 + ByteLen(rec.ai_summary)
DomainsPayload(rec) == 4 + DomainsLen(rec.key_domains)

PayloadLen(rec) ==
    32 + 4 + 8 + 8 + 8 + 64 + 1
    + MethodsPayload(rec) + SummaryPayload(rec) + DomainsPayload(rec) + 1

C3_ReportCountIsAccepted ==
    \A a \in Keys :
       /\ Exists(a) => (store[a].report_count = audit[a].n /\ audit[a].n >= 1)
       /\ ~Exists(a) => audit[a].n = 0

\* the third report was accepted after a metadata update of the record
C3_Witness ==
    /\ Accepted
    /\ audit[DrainerKey].n = 3
    /\ store[DrainerKey].report_count = 3
    /\ store[DrainerKey].ai_summary # <<>>

\* C4: total_sol_reported is the exact sum of the amounts of the accepted
\* reports; a report whose amount would take the sum past the u64 maximum
\* is rejected, with AmountOverflow when it gets to the addition, and the
\* total keeps its value.
C4_TotalIsExactSum ==
    /\ \A a \in Keys :
          Exists(a) => /\ store[a].total_sol_reported = audit[a].sum
                       /\ store[a].total_sol_reported <= U64Max
    /\ \A r \in Signers, amt \in Amounts, now \in Times :
          \A d \in ReportTargets(r), p \in FeeRecipients(r) :
             (Exists(d) /\ amt # None
                /\ store[d].total_sol_reported + amt[1] > U64Max)
             => LET res == Report(d, r, p, amt, now)
                IN  /\ res.err # "Ok"
                    /\ res.store[d].total_sol_reported = store[d].total_sol_reported
                    /\ (ReachesUpdate(d, r, p) /\ store[d].report_count < U32Max)
                          => res.err = "AmountOverflow"

\* a report was rejected with AmountOverflow and the total, the sum of two or
\* more accepted reports, is what it was
C4_Witness ==
    /\ Rejected
    /\ last.err = "AmountOverflow"
    /\ audit[DrainerKey].n >= 2
    /\ store[DrainerKey].total_sol_reported = audit[DrainerKey].sum
    /\ audit[DrainerKey].sum > 0

\* C5: recent_reporters has 2 slots; slot 0 is the reporter of the latest
\* accepted report, slot 1 the reporter of the one before it, or the empty
\* identity after the first report.
C5_RecentReporters ==
    \A a \in Keys :
       Exists(a) =>
          LET log == audit[a].log
              ring == store[a].recent_reporters
          IN  /\ Len(ring) = 2
              /\ Len(log) >= 1
              /\ ring[1] = log[Len(log)]
              /\ ring[2] = IF Len(log) >= 2 THEN log[Len(log) - 1] ELSE PubkeyDefault

\* after reports from r1, r2, r3 in that order the ring is [r3, r2]
C5_Witness ==
    /\ audit[DrainerKey].log = <<"r1", "r2", "r3">>
    /\ store[DrainerKey].recent_reporters = <<"r3", "r2">>

\* C6: no instruction changes the first_seen of an existing record or removes
\* the record, and after an accepted report last_seen is the timestamp the
\* report was given.
C6_FirstSeenFixedLastSeenNow ==
    [][/\ \A a \in Keys :
             Exists(a) => /\ store'[a] # NoRecord
                          /\ store'[a].first_seen = store[a].first_seen
       /\ (last'.op = "report_drainer" /\ last'.err = "Ok")
             => store'[last'.event[1].drainer_address].last_seen
                   = last'.event[1].timestamp]_vars

\* a later report was accepted at another time than the first
C6_Witness ==
    /\ Accepted
    /\ store[DrainerKey].report_count >= 2
    /\ store[DrainerKey].first_seen # store[DrainerKey].last_seen
    /\ store[DrainerKey].last_seen = last.event[1].timestamp

\* C7 as claimed: first_seen <= last_seen in every state of an existing
\* record, for every sequence of timestamps given to the reports.
C7_FirstSeenNotAfterLastSeen ==
    \A a \in Keys : Exists(a) => store[a].first_seen <= store[a].last_seen

\* C7 as amended: first_seen <= last_seen in every state of an existing
\* record whose accepted reports were given non-decreasing timestamps.
C7_FirstSeenNotAfterLastSeenMonotone ==
    \A a \in Keys :
       (Exists(a) /\ audit[a].mono) => store[a].first_seen <= store[a].last_seen

\* a later report at a later time
C7_Witness ==
    /\ Exists(DrainerKey)
    /\ audit[DrainerKey].mono
    /\ audit[DrainerKey].n >= 2
    /\ store[DrainerKey].first_seen < store[DrainerKey].last_seen

\* C8: at most 10 methods, 5 domains, 500 characters of summary, 100
\* characters a domain, and a confidence of at most 100, in every record.
C8_MetadataBounds ==
    \A a \in Keys :
       Exists(a) =>
          /\ Len(store[a].attack_methods) <= 10
          /\ Len(store[a].key_domains) <= 5
          /\ CharCount(store[a].ai_summary) <= 500
          /\ \A i \in 1..Len(store[a].key_domains) :
                CharCount(store[a].key_domains[i]) <= 100
          /\ store[a].ai_confidence <= 100

\* every bound is met with equality after an update with oversized input
C8_Witness ==
    /\ last.op = "update_ai_metadata"
    /\ last.err = "Ok"
    /\ Len(store[DrainerKey].attack_methods) = 10
    /\ Len(store[DrainerKey].key_domains) = 5
    /\ CharCount(store[DrainerKey].ai_summary) = 500
    /\ CharCount(store[DrainerKey].key_domains[2]) = 100
    /\ store[DrainerKey].ai_confidence = 100

\* the fields update_ai_metadata is to leave alone
AggregationFields(rec) ==
    IF rec = NoRecord THEN NoRecord
    ELSE [drainer_address |-> rec.drainer_address,
          report_count |-> rec.report_count,
          first_seen |-> rec.first_seen,
          last_seen |-> rec.last_seen,
          total_sol_reported |-> rec.total_sol_reported,
          recent_reporters |-> rec.recent_reporters]

\* C9: update_ai_metadata leaves drainer_address, report_count, first_seen,
\* last_seen, total_sol_reported and recent_reporters of every record
\* unchanged, for every input.
C9_UpdateLeavesAggregation ==
    /\ [](\A a \in MetadataTargets, signer \in MetadataSigners, in \in MetadataInputs :
            \A k \in Keys :
               AggregationFields(update_metadata(store, a, signer, in).store[k])
                  = AggregationFields(store[k]))
    /\ [][last'.op = "update_ai_metadata"
            => \A k \in Keys : AggregationFields(store'[k]) = AggregationFields(store[k])]_vars

\* an update changed the metadata of a record with two or more reports
C9_Witness ==
    /\ last.op = "update_ai_metadata"
    /\ last.err = "Ok"
    /\ store[DrainerKey].report_count >= 2
    /\ store[DrainerKey].first_seen # store[DrainerKey].last_seen
    /\ store[DrainerKey].ai_summary # <<>>

\* C10: a report of the reporter's own address, of the system program, or
\* with the reporter as fee recipient is rejected, with CannotReportSelf for
\* the reporter's own address when the accounts validation passes; it
\* creates and changes no record, moves no lamports and emits nothing.
C10_GateRejectsWithoutEffect ==
    /\ [](\A r \in Signers, amt \in Amounts, now \in Times :
            \A d \in ReportTargets(r), p \in FeeRecipients(r) :
               LET res == Report(d, r, p, amt, now)
                   validated == ReportDrainerAccounts(store, balances, d, r, p).err = "Ok"
               IN  /\ (d = r \/ d = SystemProgramID \/ p = r)
                         => /\ res.err # "Ok"
                            /\ res.store = store
                            /\ res.balances = balances
                            /\ res.event = None
                   /\ (d = r /\ validated) => res.err = "CannotReportSelf"
                   /\ (d = SystemProgramID /\ validated)
                         => res.err = "CannotReportSystemProgram")
    /\ [][last'.err \in {"CannotReportSelf", "CannotReportSystemProgram",
                         "InvalidDrainerAddress"}
            => (store' = store /\ balances' = balances /\ last'.event = None)]_vars

\* a report of the reporter's own address has just been rejected
C10_Witness ==
    /\ Rejected
    /\ last.err = "CannotReportSelf"

RECURSIVE ReportsIn(_, _)
\* the sum of report_count over the records of the addresses in S
ReportsIn(st, S) ==
    IF S = {} THEN 0
    ELSE LET a == CHOOSE x \in S : TRUE
         IN  (IF st[a] = NoRecord THEN 0 ELSE st[a].report_count)
             + ReportsIn(st, S \ {a})

\* C11: an accepted report has moved ANTI_SPAM_FEE from the reporter to the
\* fee recipient; a report whose reporter cannot pay the fee once the
\* accounts are validated is rejected and changes no record; and the fee
\* recipient holds at least one fee for every report counted in the records.
C11_NoAggregationWithoutFee ==
    /\ \A r \in Signers, amt \in Amounts, now \in Times :
          \A d \in ReportTargets(r), p \in FeeRecipients(r) :
             LET res == Report(d, r, p, amt, now)
                 accounts == ReportDrainerAccounts(store, balances, d, r, p)
             IN  /\ res.err = "Ok"
                       => /\ res.balances[p] = balances[p] + ANTI_SPAM_FEE
                          /\ res.balances[r] <= balances[r] - ANTI_SPAM_FEE
                 /\ (accounts.err = "Ok" /\ accounts.balances[r] < ANTI_SPAM_FEE)
                       => /\ res.err # "Ok"
                          /\ res.store = store
                          /\ res.balances = balances
    /\ balances[Treasury] >= ANTI_SPAM_FEE * ReportsIn(store, Keys)

\* a report on the existing record was rejected for want of lamports, and a
\* reporter who cannot pay the fee is among the signers
C11_Witness ==
    /\ Rejected
    /\ last.err = "InsufficientLamports"
    /\ Exists(DrainerKey)
    /\ \E r \in Signers : balances[r] < ANTI_SPAM_FEE
    /\ balances[Treasury] = ANTI_SPAM_FEE * store[DrainerKey].report_count

\* C12: update_ai_metadata on an address without a record fails with
\* AccountNotInitialized and leaves the store as it was, a failed update
\* changes no record, and the first accepted report of an address creates
\* its record with report_count 1 and the default metadata.
C12_UpdateWithoutRecordCreatesNothing ==
    /\ [](\A a \in MetadataTargets, signer \in MetadataSigners, in \in MetadataInputs :
            ~Exists(a) => LET res == update_metadata(store, a, signer, in)
                          IN  /\ res.err = "AccountNotInitialized"
                              /\ res.store = store)
    /\ [](\A r \in Signers, amt \in Amounts, now \in Times :
            \A d \in ReportTargets(r), p \in FeeRecipients(r) :
               LET res == Report(d, r, p, amt, now)
               IN  (~Exists(d) /\ res.err = "Ok")
                      => /\ res.store[d].report_count = 1
                         /\ res.store[d].attack_category = "Unknown"
                         /\ res.store[d].attack_methods = <<>>
                         /\ res.store[d].ai_summary = <<>>
                         /\ res.store[d].key_domains = <<>>
                         /\ res.store[d].ai_confidence = 0)
    /\ [][(last'.op = "update_ai_metadata" /\ last'.err # "Ok")
             => (store' = store /\ last'.err = "AccountNotInitialized")]_vars

\* an update of the address nobody has reported yet has just failed
C12_Witness ==
    /\ last.op = "update_ai_metadata"
    /\ last.err = "AccountNotInitialized"
    /\ ~Exists(DrainerKey)
    /\ \A a \in Keys : ~Exists(a)

RECURSIVE CharAt(_, _)
\* the i-th character of s
CharAt(s, i) == IF i <= Head(s).n THEN Head(s).c ELSE CharAt(Tail(s), i - Head(s).n)

\* t is the first Min(limit, number of characters of s) characters of s
IsPrefixOfChars(t, s, limit) ==
    /\ CharCount(t) = Min(limit, CharCount(s))
    /\ \A i \in 1..CharCount(t) : CharAt(t, i) = CharAt(s, i)

\* what the claim says an update with input in stores
ClaimedMetadata(in) ==
    [attack_methods |-> SubSeq(in.methods, 1, Min(10, Len(in.methods))),
     ai_summary |-> TakeChars(in.summary, Min(500, CharCount(in.summary))),
     key_domains |-> [i \in 1..Min(5, Len(in.domains)) |->
                        TakeChars(in.domains[i], Min(100, CharCount(in.domains[i])))],
     ai_confidence |-> Min(in.confidence, 100)]

\* the truncations keep the leading characters, one by one
TruncationKeepsLeadingChars ==
    \A in \in MetadataInputs :
       /\ IsPrefixOfChars(TruncateSummary(in.summary), in.summary, 500)
       /\ Len(TruncateDomains(in.domains)) = Min(5, Len(in.domains))
       /\ \A i \in 1..Len(TruncateDomains(in.domains)) :
             IsPrefixOfChars(TruncateDomains(in.domains)[i], in.domains[i], 100)

C14_OnlyAuthorityUpdates ==
    \A a \in MetadataTargets, signer \in MetadataSigners \ {Treasury},
       in \in MetadataInputs :
       update_metadata(store, a, signer, in).store = store

ClaimedCategory(code) ==
    IF code \in 0..4
    THEN <<"Phishing", "FakeAirdrop", "SocialEngineering", "MaliciousApproval",
           "SetAuthority">>[code + 1]
    ELSE "Unknown"

\* C16: the codes 0..4 are converted to Phishing, FakeAirdrop,
\* SocialEngineering, MaliciousApproval, SetAuthority and every code from 5
\* to 255 to Unknown; an update of an existing record succeeds whatever the
\* code and stores the category of the code.
C16_CategoryOfCode ==
    /\ \A code \in 0..255 :
          /\ CategoryFromCode(code) = ClaimedCategory(code)
          /\ CategoryFromCode(code) \in AttackCategory
    /\ \A a \in MetadataTargets, signer \in MetadataSigners, in \in MetadataInputs :
          Exists(a) =>
             LET res == update_metadata(store, a, signer, in)
             IN  /\ res.err = "Ok"
                 /\ res.store[a].attack_category = ClaimedCategory(in.category)

\* an update with the unrecognized code 9 has stored Unknown
C16_Witness ==
    /\ last.op = "update_ai_metadata"
    /\ last.err = "Ok"
    /\ store[DrainerKey].attack_category = "Unknown"
    /\ store[DrainerKey].attack_methods # <<>>

\* C17: the two slots of recent_reporters never hold the same non-empty
\* identity.
C17_RecentReportersDistinct ==
    \A a \in Keys :
       Exists(a) =>
          \/ store[a].recent_reporters[1] # store[a].recent_reporters[2]
          \/ store[a].recent_reporters[1] = PubkeyDefault

\* C18: every record has a report_count of at least 1 and within the u32
\* range, and the address of the key it is stored under; no step removes a
\* record or lowers its report_count; the accepted report of an address
\* without a record creates it with report_count 1, and every accepted
\* report of an address with a record adds 1 to report_count and keeps
\* first_seen, as the update path does.
C18_CreateOnceThenUpdate ==
    /\ [](\A a \in Keys :
            Exists(a) => /\ store[a].report_count \in 1..U32Max
                         /\ store[a].drainer_address = a)
    /\ [](\A r \in Signers, amt \in Amounts, now \in Times :
            \A d \in ReportTargets(r), p \in FeeRecipients(r) :
               LET res == Report(d, r, p, amt, now)
               IN  res.err = "Ok"
                      => IF Exists(d)
                         THEN /\ res.store[d].report_count = store[d].report_count + 1
                              /\ res.store[d].first_seen = store[d].first_seen
                              /\ res.store[d].drainer_address = d
                         ELSE /\ res.store[d].report_count = 1
                              /\ res.store[d].first_seen = now
                              /\ res.store[d].drainer_address = d)
    /\ [][\A a \in Keys :
             Exists(a) => /\ store'[a] # NoRecord
                          /\ store'[a].report_count >= store[a].report_count
                          /\ store'[a].drainer_address = store[a].drainer_address]_vars

\* a report of a record at the limit of report_count was rejected and the
\* count stayed at the limit
C18_Witness ==
    /\ Rejected
    /\ last.err = "ReportCountOverflow"
    /\ store[DrainerKey].report_count = U32Max
    /\ store[DrainerKey].drainer_address = DrainerKey

\* the fields update_ai_metadata writes
MetadataFields(rec) ==
    IF rec = NoRecord THEN NoRecord
    ELSE [attack_category |-> rec.attack_category,
          attack_methods |-> rec.attack_methods,
          ai_summary |-> rec.ai_summary,
          key_domains |-> rec.key_domains,
          ai_confidence |-> rec.ai_confidence]

\* C19: no report, accepted or rejected, changes attack_category,
\* attack_methods, ai_summary, key_domains or ai_confidence of a record that
\* exists.
C19_ReportsKeepMetadata ==
    /\ [](\A r \in Signers, amt \in Amounts, now \in Times :
            \A d \in ReportTargets(r), p \in FeeRecipients(r) :
               \A k \in Keys :
                  Exists(k) => MetadataFields(Report(d, r, p, amt, now).store[k])
                                  = MetadataFields(store[k]))
    /\ [][last'.op = "report_drainer"
            => \A k \in Keys :
                  Exists(k) => MetadataFields(store'[k]) = MetadataFields(store[k])]_vars

\* a report was accepted for a record that carries the metadata of an
\* earlier update
C19_Witness ==
    /\ Accepted
    /\ store[DrainerKey].report_count >= 2
    /\ store[DrainerKey].key_domains # <<>>
    /\ store[DrainerKey].ai_confidence > 0

====
